---- MODULE Spec2Model ----
(***************************************************************************)
(* brieftop: the resource aggregation and classification engine of         *)
(* package monitor (Monitor.GetFilteredProcesses and its helpers).         *)
(*                                                                         *)
(* Representation.                                                         *)
(*   - a process name is a sequence of one-character strings, so that the  *)
(*     prefix tests of the source (name[:len(other)] == other) are         *)
(*     computed, not assumed;                                              *)
(*   - CPUPercent (float64 percent) is kept in tenths of a percent;        *)
(*   - MemoryBytes is kept in bytes, always a whole number of MiB here, so *)
(*     that MemoryMB = MemoryBytes / (1024*1024) is exact;                 *)
(*   - a Go map is a function over its key set; ranging over a map visits  *)
(*     the keys in an order the runtime chooses, which is a choice here.   *)
(***************************************************************************)
EXTENDS Integers, Sequences, FiniteSets, TLC

VARIABLES
    snapshot,      \* what process.Processes() and the per-process reads deliver
    pc,            \* position of GetFilteredProcesses
    idx,           \* first pass: index of the next element of processes
    allProcesses,  \* local map pid -> *ProcessInfo
    childrenMap,   \* local map parent pid -> child pids, in discovery order
    aggregated,    \* local map pid -> bool, as the set of pids mapped to true
    pending,       \* second pass: keys of allProcesses the range has not yielded yet
    calls,         \* per pid, how often aggregateResources ran past its two guards
    filtered,      \* the returned slice
    processes,     \* Monitor.processes, as pid -> Expanded flag of the stored node
    absent,        \* per stored pid, the completed passes in a row that lacked it
    display,       \* the fields of Display
    mu,            \* who holds Display.mu
    at,            \* where the update, input and render goroutines are
    probe          \* the pure function under test, its arguments and its result

\* the state of the Monitor and of a call of GetFilteredProcesses
mvars == <<snapshot, pc, idx, allProcesses, childrenMap, aggregated, pending,
           calls, filtered, processes>>

\* the state of the Display and its goroutines
dvars == <<display, mu, at>>

vars == <<snapshot, pc, idx, allProcesses, childrenMap, aggregated, pending,
          calls, filtered, processes, absent, display, mu, at, probe>>

----------------------------------------------------------------------------
(* Bounds of the model *)

\* most samples in one snapshot; pids and ppids are drawn from 0..MaxProcs
MaxProcs == 2

\* deepest nesting of aggregateResources calls the goroutine stack can hold
MaxDepth == 6

\* the count of consecutive ticks a pid has been missing stops here
MaxAbsent == 2

\* most processes in a forest-shaped snapshot, and so its deepest chain
MaxForest == 3

----------------------------------------------------------------------------
(* Program constants *)

MB == 1048576

\* config.New: CPUThreshold 5.0 (percent), in tenths of a percent
CPUThreshold == 50

\* config.New: MemoryThreshold 50 * 1024 * 1024
MemoryThreshold == 50 * MB

systemd == <<"s", "y", "s", "t", "e", "m", "d">>
init == <<"i", "n", "i", "t">>
launchd == <<"l", "a", "u", "n", "c", "h", "d">>

systemParents == {systemd, init, launchd}

\* ResourceLevel: Low, Medium, High (iota)
Low == 0
Medium == 1
High == 2

\* GetResourceLevel: cpuPercent >= 50, >= 20, in tenths of a percent
HighCPU == 500
MediumCPU == 200

\* GetResourceLevel: memoryMB >= 500, >= 200
HighMemoryMB == 500
MediumMemoryMB == 200

----------------------------------------------------------------------------
(* Relation classifier *)

\* the slice expression name[:n]
Prefix(name, n) == SubSeq(name, 1, n)

\* isThread counting a child at exactly one tenth of the parent as a thread
isThreadTenthInclusive(child, parent) ==
    IF child.Name = parent.Name THEN TRUE
    ELSE IF Len(child.Name) > Len(parent.Name)
            /\ Prefix(child.Name, Len(parent.Name)) = parent.Name THEN TRUE
    ELSE IF parent.MemoryBytes > 0
            /\ 10 * child.MemoryBytes <= parent.MemoryBytes THEN TRUE
    ELSE FALSE

\* isThread without its name-prefix rule
isThreadNoPrefix(child, parent) ==
    IF child.Name = parent.Name THEN TRUE
    ELSE IF parent.MemoryBytes > 0
            /\ 10 * child.MemoryBytes < parent.MemoryBytes THEN TRUE
    ELSE FALSE

\* m.isThread(child, parent).  float64(c)/float64(p) < 0.1 is 10*c < p for
\* every pair of byte counts below 2^53 / 10, which covers the values here.
isThread(child, parent) ==
    IF child.Name = parent.Name THEN TRUE
    ELSE IF Len(child.Name) > Len(parent.Name)
            /\ Prefix(child.Name, Len(parent.Name)) = parent.Name THEN TRUE
    ELSE IF parent.MemoryBytes > 0
            /\ 10 * child.MemoryBytes < parent.MemoryBytes THEN TRUE
    ELSE FALSE

\* isRelatedToParent without its last test, parent name starts with child name
isRelatedChildPrefixOnly(child, parent) ==
    IF parent.Name \in systemParents THEN FALSE
    ELSE IF child.Name = parent.Name THEN TRUE
    ELSE IF Len(child.Name) >= Len(parent.Name)
            /\ Prefix(child.Name, Len(parent.Name)) = parent.Name THEN TRUE
    ELSE FALSE

\* isRelatedToParent without the system-init test that comes first
isRelatedNoSystemCheck(child, parent) ==
    IF child.Name = parent.Name THEN TRUE
    ELSE IF Len(child.Name) >= Len(parent.Name)
            /\ Prefix(child.Name, Len(parent.Name)) = parent.Name THEN TRUE
    ELSE IF Len(parent.Name) >= Len(child.Name)
            /\ Prefix(parent.Name, Len(child.Name)) = child.Name THEN TRUE
    ELSE FALSE

\* m.isRelatedToParent(child, parent)
isRelatedToParent(child, parent) ==
    IF parent.Name \in systemParents THEN FALSE
    ELSE IF child.Name = parent.Name THEN TRUE
    ELSE IF Len(child.Name) >= Len(parent.Name)
            /\ Prefix(child.Name, Len(parent.Name)) = parent.Name THEN TRUE
    ELSE IF Len(parent.Name) >= Len(child.Name)
            /\ Prefix(parent.Name, Len(child.Name)) = child.Name THEN TRUE
    ELSE FALSE

\* GetResourceLevel with the Medium test first
GetResourceLevelMediumFirst(cpuPercent, memoryMB) ==
    IF cpuPercent >= MediumCPU \/ memoryMB >= MediumMemoryMB THEN Medium
    ELSE IF cpuPercent >= HighCPU \/ memoryMB >= HighMemoryMB THEN High
    ELSE Low

\* m.GetResourceLevel(cpuPercent, memoryMB)
GetResourceLevel(cpuPercent, memoryMB) ==
    IF cpuPercent >= HighCPU \/ memoryMB >= HighMemoryMB THEN High
    ELSE IF cpuPercent >= MediumCPU \/ memoryMB >= MediumMemoryMB THEN Medium
    ELSE Low

----------------------------------------------------------------------------
(* First pass: getProcessInfo and the parent -> children index *)

\* getProcessInfo returns an error, before it builds a node or touches
\* Monitor.processes, when Name() or MemoryInfo() fails
\* getProcessInfo failing on Name() only
getProcessInfoFailsNameOnly(p) == p.err = "name"

getProcessInfoFails(p) == p.err \in {"name", "mem"}

\* getProcessInfo without the lookup in Monitor.processes
getProcessInfoCollapsed(p, store) ==
    [PID          |-> p.pid,
     PPID         |-> IF p.err = "ppid" THEN 0 ELSE p.ppid,
     Name         |-> p.name,
     CPUPercent   |-> IF p.err = "cpu" THEN 0 ELSE p.cpu,
     MemoryBytes  |-> p.mem,
     MemoryMB     |-> 0,
     Children     |-> << >>,
     Expanded     |-> FALSE,
     ParentCPU    |-> 0,
     ParentMemory |-> 0]

\* the ProcessInfo literal of getProcessInfo, with Expanded rehydrated from
\* the node Monitor.processes holds for the pid, if any; a failed Ppid()
\* or CPUPercent() reads as 0
getProcessInfo(p, store) ==
    [PID          |-> p.pid,
     PPID         |-> IF p.err = "ppid" THEN 0 ELSE p.ppid,
     Name         |-> p.name,
     CPUPercent   |-> IF p.err = "cpu" THEN 0 ELSE p.cpu,
     MemoryBytes  |-> p.mem,
     MemoryMB     |-> 0,
     Children     |-> << >>,
     Expanded     |-> IF p.pid \in DOMAIN store THEN store[p.pid] ELSE FALSE,
     ParentCPU    |-> 0,
     ParentMemory |-> 0]

\* m[k] = v on a map
MapPut(m, k, v) == [x \in DOMAIN m \cup {k} |-> IF x = k THEN v ELSE m[x]]

\* childrenMap[ppid] = append(childrenMap[ppid], pid), guarded by PPID != 0
LinkChild(cm, info) ==
    IF info.PPID # 0
    THEN MapPut(cm, info.PPID,
                Append(IF info.PPID \in DOMAIN cm THEN cm[info.PPID] ELSE << >>,
                       info.PID))
    ELSE cm

----------------------------------------------------------------------------
(* Second pass: aggregateResources *)

\* A traversal state: the nodes, the aggregated set, the call counts, and
\* whether the recursion outgrew the stack (a fatal error of the runtime).
RECURSIVE aggregateResources(_, _, _, _)
RECURSIVE aggregateChildren(_, _, _, _, _, _)

\* the ChildInfo literal
ChildEntry(childInfo, info) ==
    [PID         |-> childInfo.PID,
     Name        |-> childInfo.Name,
     CPUPercent  |-> childInfo.CPUPercent,
     MemoryBytes |-> childInfo.MemoryBytes,
     IsThread    |-> isThread(childInfo, info)]

\* AddChild that forgets to add the child's memory
AddChildCPUOnly(acc, childInfo) ==
    [totalCPU           |-> acc.totalCPU + childInfo.CPUPercent,
     totalMemory        |-> acc.totalMemory,
     hasRelatedChildren |-> TRUE]

\* AddChild that adds what the child used itself, not what it has gathered
AddChildOwnOnly(acc, childInfo) ==
    [totalCPU           |-> acc.totalCPU
                            + (IF childInfo.Children = << >> THEN childInfo.CPUPercent
                               ELSE childInfo.ParentCPU),
     totalMemory        |-> acc.totalMemory
                            + (IF childInfo.Children = << >> THEN childInfo.MemoryBytes
                               ELSE childInfo.ParentMemory),
     hasRelatedChildren |-> TRUE]

\* totalCPU += childInfo.CPUPercent; totalMemory += childInfo.MemoryBytes,
\* after hasRelatedChildren = true
AddChild(acc, childInfo) ==
    [totalCPU           |-> acc.totalCPU + childInfo.CPUPercent,
     totalMemory        |-> acc.totalMemory + childInfo.MemoryBytes,
     hasRelatedChildren |-> TRUE]

\* the body of `for _, childPID := range childPIDs`, from element i on;
\* acc holds the locals totalCPU, totalMemory and hasRelatedChildren
aggregateChildren(pid, cm, i, acc, st, depth) ==
    IF st.overflow \/ i > Len(cm[pid]) THEN [st |-> st, acc |-> acc]
    ELSE
      LET childPID == cm[pid][i]
          st1 == aggregateResources(childPID, st, cm, depth + 1)
      IN
      IF st1.overflow THEN [st |-> st1, acc |-> acc]
      ELSE IF childPID \notin DOMAIN st1.procs
      THEN aggregateChildren(pid, cm, i + 1, acc, st1, depth)
      ELSE
        LET childInfo == st1.procs[childPID]
            info == st1.procs[pid]
        IN
        IF ~isRelatedToParent(childInfo, info)
        THEN aggregateChildren(pid, cm, i + 1, acc, st1, depth)
        ELSE
          LET st2 == [st1 EXCEPT !.procs[pid].Children =
                                     Append(@, ChildEntry(childInfo, info))]
          IN aggregateChildren(pid, cm, i + 1, AddChild(acc, childInfo), st2, depth)

aggregateResources(pid, st, cm, depth) ==
    IF st.overflow THEN st
    ELSE IF depth > MaxDepth THEN [st EXCEPT !.overflow = TRUE]
    ELSE IF pid \in st.aggregated THEN st
    ELSE IF pid \notin DOMAIN st.procs THEN st
    ELSE
      LET entered == [st EXCEPT !.calls[pid] = @ + 1] IN
      IF pid \notin DOMAIN cm
      THEN [entered EXCEPT
              !.procs[pid].MemoryMB = entered.procs[pid].MemoryBytes \div MB,
              !.aggregated = @ \cup {pid}]
      ELSE
        LET info0 == entered.procs[pid]
            st0 == [entered EXCEPT !.procs[pid].ParentCPU = info0.CPUPercent,
                                   !.procs[pid].ParentMemory = info0.MemoryBytes]
            r == aggregateChildren(pid, cm, 1,
                     [totalCPU |-> info0.CPUPercent,
                      totalMemory |-> info0.MemoryBytes,
                      hasRelatedChildren |-> FALSE],
                     st0, depth)
        IN
        IF r.st.overflow THEN r.st
        ELSE IF r.acc.hasRelatedChildren
        THEN [r.st EXCEPT !.procs[pid].CPUPercent = r.acc.totalCPU,
                          !.procs[pid].MemoryBytes = r.acc.totalMemory,
                          !.procs[pid].MemoryMB = r.acc.totalMemory \div MB,
                          !.aggregated = @ \cup {pid}]
        ELSE [r.st EXCEPT !.procs[pid].MemoryMB =
                              r.st.procs[pid].MemoryBytes \div MB,
                          !.aggregated = @ \cup {pid}]

----------------------------------------------------------------------------
(* Third and fourth pass, and the sort *)

\* the threshold test with both thresholds required
QualifiesBoth(info) ==
    info.CPUPercent >= CPUThreshold /\ info.MemoryBytes >= MemoryThreshold

\* the threshold test of the third pass
Qualifies(info) ==
    info.CPUPercent >= CPUThreshold \/ info.MemoryBytes >= MemoryThreshold

\* key set of qualifyingProcesses
qualifyingProcesses(procs) == {pid \in DOMAIN procs : Qualifies(procs[pid])}

\* the fourth pass without its parent lookup
TopLevelAllQualifying(procs) == qualifyingProcesses(procs)

\* the fourth pass keeping only processes whose ppid is 0
TopLevelRootsOnly(procs) ==
    {pid \in qualifyingProcesses(procs) : procs[pid].PPID = 0}

\* pids the fourth pass appends to filtered
TopLevel(procs) ==
    {pid \in qualifyingProcesses(procs) :
        procs[pid].PPID \notin qualifyingProcesses(procs)}

\* every order in which ranging over a map with key set S can yield the keys
Orders(S) ==
    {o \in [1..Cardinality(S) -> S] : \A i, j \in DOMAIN o : i # j => o[i] # o[j]}

\* the comparison turned around
LessAscending(a, b) == a.CPUPercent < b.CPUPercent

\* the comparison handed to sort.Slice
Less(a, b) == a.CPUPercent > b.CPUPercent

\* sort.Slice(filtered, Less) on a slice of node pointers (a pointer is the
\* pid of its node in procs): the slice reordered so that no element is Less
\* than one before it.  Elements that compare equal keep the order in which
\* they arrived; as that order is arbitrary, so is theirs.
RECURSIVE InsertSorted(_, _, _)
InsertSorted(x, s, procs) ==
    IF s = << >> THEN <<x>>
    ELSE IF Less(procs[x], procs[Head(s)]) THEN <<x>> \o s
    ELSE <<Head(s)>> \o InsertSorted(x, Tail(s), procs)

RECURSIVE sortSlice(_, _)
sortSlice(s, procs) ==
    IF s = << >> THEN << >>
    ELSE InsertSorted(s[Len(s)], sortSlice(SubSeq(s, 1, Len(s) - 1), procs), procs)

----------------------------------------------------------------------------
(* Snapshots *)

PidSpace == 0..MaxProcs

chrome == <<"c", "h", "r", "o", "m", "e">>
chromeGpu == <<"c", "h", "r", "o", "m", "e", "-", "g", "p", "u">>
nginx == <<"n", "g", "i", "n", "x">>

bash == <<"b", "a", "s", "h">>
make == <<"m", "a", "k", "e">>
cc == <<"c", "c">>

\* names of the generic snapshots: a name, a name it prefixes, and a
\* system-init name, which is a prefix of neither and has neither as prefix
Names == {<<"a">>, <<"a", "b">>, init}

\* own usage of a sample: below both thresholds, at least the CPU threshold,
\* at least the memory threshold
Loads == {[cpu |-> 30, mem |-> 20 * MB],
          [cpu |-> 60, mem |-> 0],
          [cpu |-> 0,  mem |-> 60 * MB]}

\* a sample whose four reads (Name, Ppid, CPUPercent, MemoryInfo) succeed
Sample(pid, ppid, name, cpu, mem) ==
    [pid |-> pid, ppid |-> ppid, name |-> name, cpu |-> cpu, mem |-> mem,
     err |-> "none"]

\* a sample one of whose reads fails: err is "name", "ppid", "cpu" or "mem"
FailingSample(pid, ppid, name, cpu, mem, err) ==
    [pid |-> pid, ppid |-> ppid, name |-> name, cpu |-> cpu, mem |-> mem,
     err |-> err]

RECURSIVE Ascending(_)
Ascending(S) ==
    IF S = {} THEN << >>
    ELSE LET m == CHOOSE x \in S : \A y \in S : x <= y
         IN <<m>> \o Ascending(S \ {m})

\* what a sample of a generic snapshot is made of, besides its pid
Attrs == [ppid : PidSpace, name : Names, load : Loads]

\* the pid sets of the generic snapshots
PidSets == {Q \in SUBSET PidSpace : Q # {} /\ Cardinality(Q) <= MaxProcs}

\* process.Processes() lists the pids in ascending order
GenericSnapshot(P, f) ==
    [i \in 1..Cardinality(P) |->
        LET pid == Ascending(P)[i]
        IN Sample(pid, f[pid].ppid, f[pid].name, f[pid].load.cpu, f[pid].load.mem)]

ChromeScenario ==
    << Sample(1, 0, chrome, 32, 85 * MB),
       Sample(2, 1, chromeGpu, 23, 45 * MB) >>

\* an init-named parent with two same-named qualifying children and nginx
SystemdScenario ==
    << Sample(1, 0, systemd, 1, 10 * MB),
       Sample(2, 1, systemd, 70, 60 * MB),
       Sample(3, 1, systemd, 20, 80 * MB),
       Sample(4, 1, nginx, 80, 20 * MB) >>

\* three related levels, each child listed before its parent
ChainScenario ==
    << Sample(1, 2, chrome, 30, 10 * MB),
       Sample(2, 3, chromeGpu, 20, 20 * MB),
       Sample(3, 0, chrome, 10, 30 * MB) >>

\* a shell that runs make that runs a compiler
BuildScenario ==
    << Sample(1, 0, bash, 80, 5 * MB),
       Sample(2, 1, make, 10, 5 * MB),
       Sample(3, 2, cc, 90, 40 * MB) >>

ScenarioSnapshots == {ChromeScenario, SystemdScenario, ChainScenario, BuildScenario}

----------------------------------------------------------------------------
(* One call of GetFilteredProcesses on a fresh Monitor *)

EmptyMap == [x \in {} |-> 0]

\* ui.New: the fields of a Display before Run; the screen is nil until Run
\* sets it, and height is the second value of screen.Size() once it is set
DisplayNew ==
    [processes     |-> << >>,
     selectedIndex |-> 0,
     scrollOffset  |-> 0,
     paused        |-> FALSE,
     forceRefresh  |-> FALSE,
     running       |-> TRUE,
     screen        |-> "nil",
     height        |-> 0]

\* no goroutine of Display.Run has been started
GoroutinesOff == [update |-> "off", input |-> "off", render |-> "off"]

\* no pure function is under test
NoProbe == [fn |-> "none"]

\* everything outside the Monitor, for a Monitor used without a Display
NoDisplay ==
    /\ display = DisplayNew
    /\ mu = "free"
    /\ at = GoroutinesOff
    /\ probe = NoProbe

\* a Monitor nobody has called yet
MonitorNew ==
    /\ snapshot = << >>
    /\ pc = "idle"
    /\ idx = 1
    /\ allProcesses = EmptyMap
    /\ childrenMap = EmptyMap
    /\ aggregated = {}
    /\ pending = {}
    /\ calls = EmptyMap
    /\ filtered = << >>
    /\ processes = EmptyMap
    /\ absent = EmptyMap

Init ==
    /\ \/ \E P \in PidSets : \E f \in [P -> Attrs] : snapshot = GenericSnapshot(P, f)
       \/ snapshot \in ScenarioSnapshots
    /\ pc = "collect"
    /\ idx = 1
    /\ allProcesses = EmptyMap
    /\ childrenMap = EmptyMap
    /\ aggregated = {}
    /\ pending = {}
    /\ calls = [p \in {snapshot[i].pid : i \in DOMAIN snapshot} |-> 0]
    /\ filtered = << >>
    /\ processes = EmptyMap
    /\ absent = EmptyMap
    /\ NoDisplay

\* where the call goes after the last iteration of the first pass: ranging
\* over an empty allProcesses, the second pass has nothing to do
AfterCollect(all) == IF DOMAIN all = {} THEN "filter" ELSE "aggregate"

\* one iteration of the first pass; after the last one the second pass
\* starts ranging over allProcesses
Collect ==
    /\ pc = "collect"
    /\ idx <= Len(snapshot)
    /\ LET failed == getProcessInfoFails(snapshot[idx])
           info == getProcessInfo(snapshot[idx], processes)
           all == IF failed THEN allProcesses
                  ELSE MapPut(allProcesses, info.PID, info)
       IN /\ processes' = IF failed THEN processes
                          ELSE MapPut(processes, info.PID, info.Expanded)
          /\ allProcesses' = all
          /\ childrenMap' = IF failed THEN childrenMap
                            ELSE LinkChild(childrenMap, info)
          /\ idx' = idx + 1
          /\ IF idx = Len(snapshot)
             THEN pc' = AfterCollect(all) /\ pending' = DOMAIN all
             ELSE pc' = "collect" /\ pending' = pending
    /\ UNCHANGED <<snapshot, aggregated, calls, filtered, absent, display, mu, at,
                   probe>>

\* the traversal state the second pass hands to aggregateResources
Traversal ==
    [procs |-> allProcesses, aggregated |-> aggregated, calls |-> calls,
     overflow |-> FALSE]

\* one iteration of the second pass that returns
Aggregate ==
    /\ pc = "aggregate"
    /\ \E pid \in pending :
         LET st == aggregateResources(pid, Traversal, childrenMap, 1)
         IN /\ ~st.overflow
            /\ allProcesses' = st.procs
            /\ aggregated' = st.aggregated
            /\ calls' = st.calls
            /\ pending' = pending \ {pid}
            /\ pc' = IF pending \ {pid} = {} THEN "filter" ELSE "aggregate"
    /\ UNCHANGED <<snapshot, idx, childrenMap, filtered, processes, absent,
                   display, mu, at, probe>>

\* one iteration of the second pass whose recursion never returns: the
\* goroutine stack exceeds its limit and the runtime ends the program
AggregateOverflow ==
    /\ pc = "aggregate"
    /\ \E pid \in pending :
         LET st == aggregateResources(pid, Traversal, childrenMap, 1)
         IN /\ st.overflow
            /\ calls' = st.calls
            /\ pc' = "overflow"
    /\ UNCHANGED <<snapshot, idx, allProcesses, childrenMap, aggregated, pending,
                   filtered, processes, absent, display, mu, at, probe>>

\* third pass, fourth pass and sort.Slice; the call returns filtered
Filter ==
    /\ pc = "filter"
    /\ \E o \in Orders(TopLevel(allProcesses)) :
         filtered' = sortSlice(o, allProcesses)
    /\ pc' = "done"
    /\ UNCHANGED <<snapshot, idx, allProcesses, childrenMap, aggregated, pending,
                   calls, processes, absent, display, mu, at, probe>>

Next == Collect \/ Aggregate \/ AggregateOverflow \/ Filter

Spec == Init /\ [][Next]_vars

----------------------------------------------------------------------------
(* One call of GetFilteredProcesses on a forest-shaped snapshot *)

\* names along a chain: equal names are related, different ones are not
ForestNames == {<<"a">>, <<"b">>}

\* what a process of a forest is made of besides its pid; its parent has a
\* smaller pid or is nobody (ppid 0)
ForestAttrs == [ppid : 0..(MaxForest - 1), name : ForestNames, load : Loads]

\* process.Processes() of pids 1..n, each with a parent listed before it
ForestSnapshot(n, f) ==
    [i \in 1..n |-> Sample(i, f[i].ppid, f[i].name, f[i].load.cpu, f[i].load.mem)]

InitForest ==
    /\ \E n \in 1..MaxForest : \E f \in [1..n -> ForestAttrs] :
         /\ \A i \in 1..n : f[i].ppid < i
         /\ snapshot = ForestSnapshot(n, f)
    /\ pc = "collect"
    /\ idx = 1
    /\ allProcesses = EmptyMap
    /\ childrenMap = EmptyMap
    /\ aggregated = {}
    /\ pending = {}
    /\ calls = [p \in {snapshot[i].pid : i \in DOMAIN snapshot} |-> 0]
    /\ filtered = << >>
    /\ processes = EmptyMap
    /\ absent = EmptyMap
    /\ NoDisplay

\* no forest outgrows the stack, so every iteration of the second pass
\* returns
NextForest == Collect \/ Aggregate \/ Filter

SpecForest == InitForest /\ [][NextForest]_vars

----------------------------------------------------------------------------
(* A Monitor called tick after tick, with toggles between the calls *)

\* ToggleExpanded that sets the flag instead of flipping it
ToggleExpandedSet(store, pid) ==
    IF pid \in DOMAIN store THEN [store EXCEPT ![pid] = TRUE] ELSE store

\* Monitor.ToggleExpanded on the store: the flag of the node the store holds
\* for pid is flipped; a pid without an entry is left alone
ToggleExpanded(store, pid) ==
    IF pid \in DOMAIN store THEN [store EXCEPT ![pid] = ~@] ELSE store

\* The node the store holds for pid is the node the latest pass made for
\* it: where that node is among the given nodes, pid's flag there is the
\* store's flag
Aliased(nodes, store, pid) ==
    IF pid \in DOMAIN nodes
    THEN [nodes EXCEPT ![pid].Expanded = store[pid]]
    ELSE nodes

\* pids of the processes a tick can show
TickPids == {1, 2}

\* what a tick can show of pid 1, a root
TickRoots ==
    {FailingSample(1, 0, <<"a">>, l.cpu, l.mem, e) :
        l \in {[cpu |-> 30, mem |-> 20 * MB], [cpu |-> 60, mem |-> 0]},
        e \in {"none", "name", "cpu"}}

\* what a tick can show of pid 2, a child of pid 1 with a related or an
\* unrelated name
TickChildren ==
    {FailingSample(2, 1, n, l.cpu, l.mem, e) :
        n \in {<<"a">>, <<"b">>},
        l \in {[cpu |-> 30, mem |-> 20 * MB], [cpu |-> 60, mem |-> 0]},
        e \in {"none", "mem", "ppid"}}

\* process.Processes() of one tick: any of the two processes may be missing,
\* and one snapshot holds a process that names itself as parent
TickSnapshots ==
    {<< >>, <<Sample(1, 1, <<"a">>, 60, 0)>>}
    \cup {<<r>> : r \in TickRoots}
    \cup {<<c>> : c \in TickChildren}
    \cup {<<r, c>> : r \in TickRoots, c \in TickChildren}

InitMonitor ==
    /\ MonitorNew
    /\ NoDisplay

\* GetFilteredProcesses is called and process.Processes() succeeds
MonitorCall ==
    /\ pc = "idle"
    /\ \E snap \in TickSnapshots :
         /\ snapshot' = snap
         /\ calls' = [p \in {snap[i].pid : i \in DOMAIN snap} |-> 0]
         /\ pc' = IF snap = << >> THEN AfterCollect(EmptyMap) ELSE "collect"
    /\ idx' = 1
    /\ allProcesses' = EmptyMap
    /\ childrenMap' = EmptyMap
    /\ aggregated' = {}
    /\ pending' = {}
    /\ filtered' = << >>
    /\ probe' = [fn |-> "GetFilteredProcesses", store |-> processes,
                 failed |-> FALSE]
    /\ UNCHANGED <<processes, absent, dvars>>

\* GetFilteredProcesses is called and process.Processes() fails: the call
\* returns nil and the error before it touches anything
MonitorScanFails ==
    /\ pc = "idle"
    /\ probe' = [fn |-> "GetFilteredProcesses", store |-> processes,
                 failed |-> TRUE]
    /\ UNCHANGED <<mvars, absent, dvars>>

\* for how many ticks in a row each stored flag has gone without its pid in
\* the snapshot since the flag was last written, counted when a pass returns
Absences(store, snap, old) ==
    [pid \in DOMAIN store |->
        IF \E i \in DOMAIN snap : snap[i].pid = pid THEN 0
        ELSE IF pid \notin DOMAIN old THEN 1
        ELSE IF old[pid] < MaxAbsent THEN old[pid] + 1
        ELSE MaxAbsent]

\* return filtered, nil: the locals of the call are gone, the caller holds
\* the returned nodes
MonitorReturn ==
    /\ pc = "done"
    /\ pc' = "idle"
    /\ absent' = Absences(processes, snapshot, absent)
    /\ snapshot' = << >>
    /\ idx' = 1
    /\ childrenMap' = EmptyMap
    /\ aggregated' = {}
    /\ pending' = {}
    /\ calls' = EmptyMap
    /\ UNCHANGED <<allProcesses, filtered, processes, dvars, probe>>

\* the caller toggles a pid between two calls; probe keeps the store and
\* the returned nodes as they were before the first of one or two
\* toggles in a row of the same pid; a flag just written has been missing
\* for no tick
MonitorToggle ==
    /\ pc = "idle"
    /\ \E pid \in TickPids \cup {3} :
         LET second == /\ probe.fn = "ToggleExpanded"
                       /\ probe.pid = pid
                       /\ probe.n = 1
         IN /\ processes' = ToggleExpanded(processes, pid)
            /\ allProcesses' = Aliased(allProcesses, processes', pid)
            /\ probe' = IF second THEN [probe EXCEPT !.n = 2]
                        ELSE [fn |-> "ToggleExpanded", pid |-> pid, n |-> 1,
                              store |-> processes, nodes |-> allProcesses,
                              filtered |-> filtered]
            /\ absent' = IF pid \in DOMAIN absent
                         THEN [absent EXCEPT ![pid] = 0] ELSE absent
    /\ UNCHANGED <<snapshot, pc, idx, childrenMap, aggregated, pending, calls,
                   filtered, dvars>>

NextMonitor ==
    \/ MonitorCall
    \/ MonitorScanFails
    \/ Collect
    \/ Aggregate
    \/ AggregateOverflow
    \/ Filter
    \/ MonitorReturn
    \/ MonitorToggle

SpecMonitor == InitMonitor /\ [][NextMonitor]_vars

----------------------------------------------------------------------------
(* The Display: update loop, input loop and render loop around one Monitor *)

\* d.paused = !d.paused
TogglePause(d) == [d EXCEPT !.paused = ~@]

\* d.forceRefresh = true
ForceRefresh(d) == [d EXCEPT !.forceRefresh = TRUE]

\* adjustScrollOffset without the test that keeps the selection above the
\* bottom of the viewport
adjustScrollOffsetUpOnly(d) ==
    IF d.screen = "nil" THEN d
    ELSE LET moved == IF d.selectedIndex < d.scrollOffset
                      THEN d.selectedIndex ELSE d.scrollOffset
         IN [d EXCEPT !.scrollOffset = IF moved < 0 THEN 0 ELSE moved]

\* adjustScrollOffset: nothing without a screen; else the offset follows the
\* selection into the height - 11 rows of the viewport and stays >= 0
adjustScrollOffset(d) ==
    IF d.screen = "nil" THEN d
    ELSE LET maxRows == d.height - 11
             moved == IF d.selectedIndex < d.scrollOffset
                      THEN d.selectedIndex
                      ELSE IF d.selectedIndex >= d.scrollOffset + maxRows
                      THEN d.selectedIndex - maxRows + 1
                      ELSE d.scrollOffset
         IN [d EXCEPT !.scrollOffset = IF moved < 0 THEN 0 ELSE moved]

\* MoveCursor that stops at both ends of the list
MoveCursorStopping(d, delta) ==
    IF Len(d.processes) = 0 THEN d
    ELSE LET newPos == d.selectedIndex + delta
             stopped == IF newPos < 0 THEN 0
                        ELSE IF newPos >= Len(d.processes) THEN Len(d.processes) - 1
                        ELSE newPos
         IN adjustScrollOffset([d EXCEPT !.selectedIndex = stopped])

\* MoveCursor(delta): wraps around both ends of a non-empty list
MoveCursor(d, delta) ==
    IF Len(d.processes) = 0 THEN d
    ELSE LET newPos == d.selectedIndex + delta
             wrapped == IF newPos < 0 THEN Len(d.processes) - 1
                        ELSE IF newPos >= Len(d.processes) THEN 0
                        ELSE newPos
         IN adjustScrollOffset([d EXCEPT !.selectedIndex = wrapped])

\* SetCursor(pos): a negative or too large pos selects the last entry
SetCursor(d, pos) ==
    IF Len(d.processes) = 0 THEN d
    ELSE LET sel == IF pos < 0 THEN Len(d.processes) - 1
                    ELSE IF pos >= Len(d.processes) THEN Len(d.processes) - 1
                    ELSE pos
         IN adjustScrollOffset([d EXCEPT !.selectedIndex = sel])

\* the tail of updateProcesses after d.processes is assigned: the selection
\* is brought into the list, then the scroll offset follows
ClampSelection(d) ==
    LET high == IF d.selectedIndex >= Len(d.processes)
                THEN Len(d.processes) - 1 ELSE d.selectedIndex
        sel == IF high < 0 THEN 0 ELSE high
    IN adjustScrollOffset([d EXCEPT !.selectedIndex = sel])

\* Display.Stop: running is cleared and the screen, if there is one, is
\* finalised
Stop(d) ==
    [d EXCEPT !.running = FALSE,
              !.screen = IF d.screen = "nil" THEN "nil" ELSE "fini"]

\* the PID Display.ToggleExpanded hands to the Monitor, 0 when it returns
\* before the call
SelectedPID(d) ==
    IF Len(d.processes) = 0 \/ d.selectedIndex >= Len(d.processes) THEN 0
    ELSE d.processes[d.selectedIndex + 1].PID

\* the published node of pid carries the store's flag when the store still
\* holds that node, that is when no pass in flight has made a new one
AliasedForest(forest, nodes, store, pid) ==
    [i \in DOMAIN forest |->
        IF forest[i].PID = pid /\ pid \notin DOMAIN nodes /\ pid \in DOMAIN store
        THEN [forest[i] EXCEPT !.Expanded = store[pid]]
        ELSE forest[i]]

\* the keys HandleInput passes on to a method of the Display, and q
Keys == {"space", "r", "up", "down", "enter", "home", "end", "q"}

\* the Display fields after the method HandleInput calls for a key
KeyEffect(d, key) ==
    CASE key = "space" -> TogglePause(d)
      [] key = "r"     -> ForceRefresh(d)
      [] key = "up"    -> MoveCursor(d, -1)
      [] key = "down"  -> MoveCursor(d, 1)
      [] key = "home"  -> SetCursor(d, 0)
      [] key = "end"   -> SetCursor(d, -1)
      [] key = "q"     -> Stop(d)
      [] OTHER         -> d

\* second value of screen.Size(): one or two process rows
Heights == {12, 13}

\* process.Processes() as the update loop can find it: nothing to show, one
\* entry, one entry with a folded child, two entries, and a process that
\* names itself as parent
DisplaySnapshots ==
    { << >>,
      <<Sample(1, 0, <<"a">>, 60, 0)>>,
      <<Sample(1, 0, <<"a">>, 60, 0), Sample(2, 1, <<"a">>, 70, 0)>>,
      <<Sample(1, 0, <<"a">>, 60, 0), Sample(2, 0, <<"b">>, 70, 0)>>,
      <<Sample(1, 1, <<"a">>, 60, 0)>> }

\* what the render in progress saw when it took the lock
Frame(d) ==
    [processes |-> d.processes, selectedIndex |-> d.selectedIndex,
     scrollOffset |-> d.scrollOffset]

\* probe while a Display runs: the frame of the render in progress, and
\* whether the latest scan failed, or the one before the pass in flight
Observed(frame, scan) == [fn |-> "Run", frame |-> frame, scan |-> scan]

InitDisplay ==
    /\ MonitorNew
    /\ display = DisplayNew
    /\ mu = "free"
    /\ at = GoroutinesOff
    /\ probe = Observed(Frame(DisplayNew), "none")

\* the runtime has not ended the program
Alive == pc # "overflow"

\* Run up to its loop: the screen is made and both goroutines are started
Run ==
    /\ at = GoroutinesOff
    /\ \E h \in Heights :
         display' = [display EXCEPT !.screen = "on", !.height = h]
    /\ at' = [update |-> "top", input |-> "poll", render |-> "top"]
    /\ UNCHANGED <<mvars, absent, mu, probe>>

\* updateLoop: for d.running
UpdateLoopTest ==
    /\ Alive
    /\ at.update = "top"
    /\ at' = [at EXCEPT !.update = IF display.running THEN "select" ELSE "exit"]
    /\ UNCHANGED <<mvars, absent, display, mu, probe>>

\* a tick with the display paused and no refresh asked for: no call
TickSkip ==
    /\ Alive
    /\ at.update = "select"
    /\ ~(~display.paused \/ display.forceRefresh)
    /\ at' = [at EXCEPT !.update = "top"]
    /\ UNCHANGED <<mvars, absent, display, mu, probe>>

\* a tick that starts a pass without looking at the paused flag
TickPassAlways ==
    /\ Alive
    /\ at.update = "select"
    /\ pc = "idle"
    /\ \E snap \in DisplaySnapshots :
         /\ snapshot' = snap
         /\ calls' = [p \in {snap[i].pid : i \in DOMAIN snap} |-> 0]
         /\ pc' = IF snap = << >> THEN AfterCollect(EmptyMap) ELSE "collect"
    /\ idx' = 1
    /\ allProcesses' = EmptyMap
    /\ childrenMap' = EmptyMap
    /\ aggregated' = {}
    /\ pending' = {}
    /\ filtered' = << >>
    /\ at' = [at EXCEPT !.update = "pass"]
    /\ probe' = [probe EXCEPT !.scan = IF @ = "failed" THEN "retried" ELSE @]
    /\ UNCHANGED <<processes, absent, display, mu>>

\* a tick that calls updateProcesses, whose GetFilteredProcesses call gets
\* a snapshot
TickPass ==
    /\ Alive
    /\ at.update = "select"
    /\ ~display.paused \/ display.forceRefresh
    /\ pc = "idle"
    /\ \E snap \in DisplaySnapshots :
         /\ snapshot' = snap
         /\ calls' = [p \in {snap[i].pid : i \in DOMAIN snap} |-> 0]
         /\ pc' = IF snap = << >> THEN AfterCollect(EmptyMap) ELSE "collect"
    /\ idx' = 1
    /\ allProcesses' = EmptyMap
    /\ childrenMap' = EmptyMap
    /\ aggregated' = {}
    /\ pending' = {}
    /\ filtered' = << >>
    /\ at' = [at EXCEPT !.update = "pass"]
    /\ probe' = [probe EXCEPT !.scan = IF @ = "failed" THEN "retried" ELSE @]
    /\ UNCHANGED <<processes, absent, display, mu>>

\* a failed scan that blanks the list on the screen
TickScanFailsBlank ==
    /\ Alive
    /\ at.update = "select"
    /\ ~display.paused \/ display.forceRefresh
    /\ pc = "idle"
    /\ at' = [at EXCEPT !.update = "failed"]
    /\ probe' = [probe EXCEPT !.scan = "failed"]
    /\ display' = ClampSelection([display EXCEPT !.processes = << >>])
    /\ UNCHANGED <<mvars, absent, mu>>

\* a tick that calls updateProcesses, whose GetFilteredProcesses call fails
\* in process.Processes(): updateProcesses returns at once
TickScanFails ==
    /\ Alive
    /\ at.update = "select"
    /\ ~display.paused \/ display.forceRefresh
    /\ pc = "idle"
    /\ at' = [at EXCEPT !.update = "failed"]
    /\ probe' = [probe EXCEPT !.scan = "failed"]
    /\ UNCHANGED <<mvars, absent, display, mu>>

\* d.mu.Lock() of updateProcesses, after GetFilteredProcesses has returned
UpdateLock ==
    /\ at.update = "pass"
    /\ pc = "done"
    /\ mu = "free"
    /\ mu' = "update"
    /\ at' = [at EXCEPT !.update = "publish"]
    /\ UNCHANGED <<mvars, absent, display, probe>>

\* d.processes = processes
Publish ==
    /\ at.update = "publish"
    /\ display' = [display EXCEPT
                     !.processes = [i \in DOMAIN filtered |-> allProcesses[filtered[i]]]]
    /\ at' = [at EXCEPT !.update = "clamp"]
    /\ UNCHANGED <<mvars, absent, mu, probe>>

\* the rest of updateProcesses: selection and scroll offset are adjusted,
\* the lock is released and the call returns, its locals gone
PublishUnlock ==
    /\ at.update = "clamp"
    /\ display' = ClampSelection(display)
    /\ mu' = "free"
    /\ at' = [at EXCEPT !.update = "clear"]
    /\ pc' = "idle"
    /\ snapshot' = << >>
    /\ idx' = 1
    /\ allProcesses' = EmptyMap
    /\ childrenMap' = EmptyMap
    /\ aggregated' = {}
    /\ pending' = {}
    /\ calls' = EmptyMap
    /\ filtered' = << >>
    /\ probe' = [probe EXCEPT !.scan = "none"]
    /\ UNCHANGED <<processes, absent>>

\* d.forceRefresh = false, after updateProcesses has returned either way
ClearForceRefresh ==
    /\ at.update \in {"clear", "failed"}
    /\ display' = [display EXCEPT !.forceRefresh = FALSE]
    /\ at' = [at EXCEPT !.update = "top"]
    /\ UNCHANGED <<mvars, absent, mu, probe>>

\* inputLoop: PollEvent hands over a key event, HandleInput calls the
\* method the key stands for, and its d.mu.Lock() succeeds
InputLock ==
    /\ Alive
    /\ at.input = "poll"
    /\ display.running
    /\ mu = "free"
    /\ mu' = "input"
    /\ \E key \in Keys : at' = [at EXCEPT !.input = key]
    /\ UNCHANGED <<mvars, absent, display, probe>>

\* the method of a key other than Enter, up to its deferred Unlock; after
\* Stop the input loop returns
InputKey ==
    /\ Alive
    /\ at.input \in Keys \ {"enter"}
    /\ mu = "input"
    /\ display' = KeyEffect(display, at.input)
    /\ mu' = "free"
    /\ at' = [at EXCEPT !.input = IF at.input = "q" THEN "exit" ELSE "poll"]
    /\ UNCHANGED <<mvars, absent, probe>>

\* Display.ToggleExpanded up to its deferred Unlock: the Monitor flips the
\* flag of the node its store holds for the selected PID
InputToggle ==
    /\ Alive
    /\ at.input = "enter"
    /\ mu = "input"
    /\ LET pid == SelectedPID(display)
       IN /\ processes' = ToggleExpanded(processes, pid)
          /\ allProcesses' = Aliased(allProcesses, processes', pid)
          /\ display' = [display EXCEPT
                           !.processes = AliasedForest(@, allProcesses, processes', pid)]
    /\ mu' = "free"
    /\ at' = [at EXCEPT !.input = "poll"]
    /\ UNCHANGED <<snapshot, pc, idx, childrenMap, aggregated, pending, calls,
                   filtered, absent, probe>>

\* Run: for d.running
RenderLoopTest ==
    /\ Alive
    /\ at.render = "top"
    /\ at' = [at EXCEPT !.render = IF display.running THEN "rlock" ELSE "fini"]
    /\ UNCHANGED <<mvars, absent, display, mu, probe>>

\* render starting to draw without the lock
RenderWithoutLock ==
    /\ Alive
    /\ at.render = "rlock"
    /\ at' = [at EXCEPT !.render = "draw"]
    /\ probe' = [probe EXCEPT !.frame = Frame(display)]
    /\ UNCHANGED <<mvars, absent, display, mu>>

\* d.mu.RLock() of render
RenderLock ==
    /\ Alive
    /\ at.render = "rlock"
    /\ mu = "free"
    /\ mu' = "render"
    /\ at' = [at EXCEPT !.render = "draw"]
    /\ probe' = [probe EXCEPT !.frame = Frame(display)]
    /\ UNCHANGED <<mvars, absent, display>>

\* render draws and shows the screen, its deferred RUnlock runs, Run sleeps
Render ==
    /\ Alive
    /\ at.render = "draw"
    /\ mu' = "free"
    /\ at' = [at EXCEPT !.render = "top"]
    /\ probe' = [probe EXCEPT !.frame = Frame(DisplayNew)]
    /\ UNCHANGED <<mvars, absent, display>>

\* d.screen.Fini() after the loop of Run; Run returns
RunFini ==
    /\ Alive
    /\ at.render = "fini"
    /\ display' = [display EXCEPT !.screen = "fini"]
    /\ at' = [at EXCEPT !.render = "exit"]
    /\ UNCHANGED <<mvars, absent, mu, probe>>

NextDisplay ==
    \/ Run
    \/ UpdateLoopTest
    \/ TickSkip
    \/ TickPass
    \/ TickScanFails
    \/ Collect
    \/ Aggregate
    \/ AggregateOverflow
    \/ Filter
    \/ UpdateLock
    \/ Publish
    \/ PublishUnlock
    \/ ClearForceRefresh
    \/ InputLock
    \/ InputKey
    \/ InputToggle
    \/ RenderLoopTest
    \/ RenderLock
    \/ Render
    \/ RunFini

SpecDisplay == InitDisplay /\ [][NextDisplay]_vars

----------------------------------------------------------------------------
(* The classifiers and GetResourceLevel, applied to drawn arguments *)

\* names handed to the classifiers: empty, related by prefix, differing in
\* case only, unrelated, and the three system-init names
ProbeNames == {<< >>, <<"a">>, <<"a", "b">>, <<"A">>, <<"b">>, systemd, init, launchd}

\* resident sizes handed to the classifiers, around one tenth of 100 MiB
ProbeMemory == {0, 9 * MB, 10 * MB, 11 * MB, 100 * MB}

\* the fields of a node the classifiers could read
ProbeNodes == [Name : ProbeNames, MemoryBytes : ProbeMemory, CPUPercent : {0, 70}]

\* arguments of GetResourceLevel around its four thresholds: tenths of a
\* percent, and whole megabytes
ProbeCPU == {0, MediumCPU - 1, MediumCPU, HighCPU - 1, HighCPU, HighCPU + 400}
ProbeMemoryMB == {0, MediumMemoryMB - 1, MediumMemoryMB, HighMemoryMB - 1,
                  HighMemoryMB, HighMemoryMB + 400}

InitPure ==
    /\ MonitorNew
    /\ display = DisplayNew
    /\ mu = "free"
    /\ at = GoroutinesOff
    /\ \/ \E c, p \in ProbeNodes, fn \in {"isThread", "isRelatedToParent"} :
            probe = [fn |-> fn, child |-> c, parent |-> p, done |-> FALSE]
       \/ \E cpu \in ProbeCPU, mem \in ProbeMemoryMB :
            probe = [fn |-> "GetResourceLevel", cpuPercent |-> cpu,
                     memoryMB |-> mem, done |-> FALSE]

CallIsThread ==
    /\ probe.fn = "isThread" /\ ~probe.done
    /\ probe' = [fn |-> probe.fn, child |-> probe.child, parent |-> probe.parent,
                 done |-> TRUE, result |-> isThread(probe.child, probe.parent)]
    /\ UNCHANGED <<mvars, absent, dvars>>

CallIsRelatedToParent ==
    /\ probe.fn = "isRelatedToParent" /\ ~probe.done
    /\ probe' = [fn |-> probe.fn, child |-> probe.child, parent |-> probe.parent,
                 done |-> TRUE,
                 result |-> isRelatedToParent(probe.child, probe.parent)]
    /\ UNCHANGED <<mvars, absent, dvars>>

CallGetResourceLevel ==
    /\ probe.fn = "GetResourceLevel" /\ ~probe.done
    /\ probe' = [fn |-> probe.fn, cpuPercent |-> probe.cpuPercent,
                 memoryMB |-> probe.memoryMB, done |-> TRUE,
                 result |-> GetResourceLevel(probe.cpuPercent, probe.memoryMB)]
    /\ UNCHANGED <<mvars, absent, dvars>>

NextPure == CallIsThread \/ CallIsRelatedToParent \/ CallGetResourceLevel

SpecPure == InitPure /\ [][NextPure]_vars

----------------------------------------------------------------------------
(* A Config and the calls of its setters and getters *)

\* time.Second, in milliseconds
Second == 1000

\* config.New
ConfigNew ==
    [CPUThreshold    |-> CPUThreshold,
     MemoryThreshold |-> MemoryThreshold,
     RefreshRate     |-> Second,
     ShowThreads     |-> TRUE]

\* a setter that also puts the memory threshold back to its default
SetCPUThresholdResetting(c, threshold) ==
    [c EXCEPT !.CPUThreshold = threshold, !.MemoryThreshold = MemoryThreshold]

SetCPUThreshold(c, threshold) == [c EXCEPT !.CPUThreshold = threshold]

SetMemoryThreshold(c, threshold) == [c EXCEPT !.MemoryThreshold = threshold]

SetRefreshRate(c, rate) == [c EXCEPT !.RefreshRate = rate]

GetCPUThreshold(c) == c.CPUThreshold

GetMemoryThreshold(c) == c.MemoryThreshold

GetRefreshRate(c) == c.RefreshRate

\* arguments of the setters: thresholds in tenths of a percent and in
\* bytes, rates in milliseconds; the defaults are among them
CPUThresholds == {0, 1, CPUThreshold, 1000}

MemoryThresholds == {0, MB, MemoryThreshold, 1024 * MB}

RefreshRates == {100, 500, Second, 5 * Second}

\* nothing has been set, nothing has been returned
Nothing == << >>

\* probe holds the Config, the last call on it with what it returned, and
\* for each field the argument of the last call of its setter
InitConfig ==
    /\ MonitorNew
    /\ display = DisplayNew
    /\ mu = "free"
    /\ at = GoroutinesOff
    /\ probe = [fn     |-> "New",
                config |-> ConfigNew,
                set    |-> [CPUThreshold |-> Nothing, MemoryThreshold |-> Nothing,
                            RefreshRate |-> Nothing],
                ret    |-> Nothing]

CallSetCPUThreshold ==
    /\ probe.fn # "none"
    /\ \E threshold \in CPUThresholds :
         probe' = [probe EXCEPT !.fn = "SetCPUThreshold",
                                !.config = SetCPUThreshold(@, threshold),
                                !.set.CPUThreshold = <<threshold>>,
                                !.ret = Nothing]
    /\ UNCHANGED <<mvars, absent, dvars>>

CallSetMemoryThreshold ==
    /\ probe.fn # "none"
    /\ \E threshold \in MemoryThresholds :
         probe' = [probe EXCEPT !.fn = "SetMemoryThreshold",
                                !.config = SetMemoryThreshold(@, threshold),
                                !.set.MemoryThreshold = <<threshold>>,
                                !.ret = Nothing]
    /\ UNCHANGED <<mvars, absent, dvars>>

CallSetRefreshRate ==
    /\ probe.fn # "none"
    /\ \E rate \in RefreshRates :
         probe' = [probe EXCEPT !.fn = "SetRefreshRate",
                                !.config = SetRefreshRate(@, rate),
                                !.set.RefreshRate = <<rate>>,
                                !.ret = Nothing]
    /\ UNCHANGED <<mvars, absent, dvars>>

CallGetCPUThreshold ==
    /\ probe.fn # "none"
    /\ probe' = [probe EXCEPT !.fn = "GetCPUThreshold",
                              !.ret = <<GetCPUThreshold(probe.config)>>]
    /\ UNCHANGED <<mvars, absent, dvars>>

CallGetMemoryThreshold ==
    /\ probe.fn # "none"
    /\ probe' = [probe EXCEPT !.fn = "GetMemoryThreshold",
                              !.ret = <<GetMemoryThreshold(probe.config)>>]
    /\ UNCHANGED <<mvars, absent, dvars>>

CallGetRefreshRate ==
    /\ probe.fn # "none"
    /\ probe' = [probe EXCEPT !.fn = "GetRefreshRate",
                              !.ret = <<GetRefreshRate(probe.config)>>]
    /\ UNCHANGED <<mvars, absent, dvars>>

NextConfig ==
    \/ CallSetCPUThreshold
    \/ CallSetMemoryThreshold
    \/ CallSetRefreshRate
    \/ CallGetCPUThreshold
    \/ CallGetMemoryThreshold
    \/ CallGetRefreshRate

SpecConfig == InitConfig /\ [][NextConfig]_vars

----------------------------------------------------------------------------
(* Vocabulary of the properties, read off the snapshot and the returned nodes *)

Done == pc = "done"

\* the pids of the samples whose reads gave a node
Pids == {snapshot[i].pid : i \in {j \in DOMAIN snapshot : snapshot[j].err \notin {"name", "mem"}}}

SampleOf(pid) == snapshot[CHOOSE i \in DOMAIN snapshot : snapshot[i].pid = pid]

Node(pid) == allProcesses[pid]

\* the pids the call returned, and how often each occurs
Returned == {filtered[i] : i \in DOMAIN filtered}
Occurrences(pid) == Cardinality({i \in DOMAIN filtered : filtered[i] = pid})

\* c names p as its parent (a ppid of 0 names nobody)
IsChildOf(c, p) == SampleOf(c).ppid = p /\ SampleOf(c).ppid # 0

\* the classifier's answer for a pair, taken on the samples' names
Related(c, p) ==
    isRelatedToParent([Name |-> SampleOf(c).name], [Name |-> SampleOf(p).name])

RelatedChildrenOf(p) == {c \in Pids : IsChildOf(c, p) /\ Related(c, p)}

RECURSIVE SumCPU(_)
SumCPU(entries) ==
    IF entries = << >> THEN 0 ELSE Head(entries).CPUPercent + SumCPU(Tail(entries))

RECURSIVE SumMemory(_)
SumMemory(entries) ==
    IF entries = << >> THEN 0 ELSE Head(entries).MemoryBytes + SumMemory(Tail(entries))

ChildPidsOf(p) == {Node(p).Children[i].PID : i \in DOMAIN Node(p).Children}

\* the either-threshold test on a node's displayed values
MeetsThreshold(pid) ==
    Node(pid).CPUPercent >= CPUThreshold \/ Node(pid).MemoryBytes >= MemoryThreshold

\* the ancestors of pid along ppid links, at most n links up
RECURSIVE AncestorsWithin(_, _)
AncestorsWithin(pid, n) ==
    IF n = 0 \/ pid \notin Pids \/ SampleOf(pid).ppid = 0
       \/ SampleOf(pid).ppid \notin Pids
    THEN {}
    ELSE {SampleOf(pid).ppid} \cup AncestorsWithin(SampleOf(pid).ppid, n - 1)

Ancestors(pid) == AncestorsWithin(pid, Cardinality(Pids))

\* the ppid links form a forest: no process is its own ancestor
IsForest == \A p \in Pids : p \notin Ancestors(p)

\* d is p, or d hangs below p on a chain of parent links each of which the
\* classifier calls related; n bounds the length of the chain
RECURSIVE RelatedChainWithin(_, _, _)
RelatedChainWithin(d, p, n) ==
    \/ d = p
    \/ /\ n > 0
       /\ SampleOf(d).ppid \in Pids
       /\ IsChildOf(d, SampleOf(d).ppid)
       /\ Related(d, SampleOf(d).ppid)
       /\ RelatedChainWithin(SampleOf(d).ppid, p, n - 1)

\* the processes whose own usage belongs to p: p and its descendants over
\* related links only
Family(p) == {d \in Pids : RelatedChainWithin(d, p, Cardinality(Pids))}

\* the sum of the samples' own CPU, and memory, over a set of pids
RECURSIVE OwnCPU(_)
OwnCPU(S) ==
    IF S = {} THEN 0
    ELSE LET x == CHOOSE y \in S : TRUE IN SampleOf(x).cpu + OwnCPU(S \ {x})

RECURSIVE OwnMemory(_)
OwnMemory(S) ==
    IF S = {} THEN 0
    ELSE LET x == CHOOSE y \in S : TRUE IN SampleOf(x).mem + OwnMemory(S \ {x})

\* p is s cut off after some number of its characters
IsPrefixOf(p, s) == \E n \in 0..Len(s) : SubSeq(s, 1, n) = p

IsProperPrefixOf(p, s) == IsPrefixOf(p, s) /\ p # s

\* The first pass over a whole snapshot, from element i on
RECURSIVE FirstPass(_, _, _)
FirstPass(snap, i, st) ==
    IF i > Len(snap) THEN st
    ELSE IF getProcessInfoFails(snap[i]) THEN FirstPass(snap, i + 1, st)
    ELSE LET info == getProcessInfo(snap[i], st.store)
         IN FirstPass(snap, i + 1,
                      [all   |-> MapPut(st.all, info.PID, info),
                       cm    |-> LinkChild(st.cm, info),
                       store |-> MapPut(st.store, info.PID, info.Expanded)])

\* The second pass, ranging over the pids in the given order
RECURSIVE SecondPass(_, _, _)
SecondPass(order, st, cm) ==
    IF order = << >> THEN st
    ELSE SecondPass(Tail(order), aggregateResources(Head(order), st, cm, 1), cm)

\* GetFilteredProcesses as a function of the snapshot and the store: the
\* nodes it leaves, the store it leaves and the pids it returns, with the
\* second pass ranging in ascending order
PassOver(snap, store) ==
    LET f == FirstPass(snap, 1, [all |-> EmptyMap, cm |-> EmptyMap, store |-> store])
        t == SecondPass(Ascending(DOMAIN f.all),
                        [procs |-> f.all, aggregated |-> {},
                         calls |-> [p \in DOMAIN f.all |-> 0], overflow |-> FALSE],
                        f.cm)
    IN [procs |-> t.procs, overflow |-> t.overflow, store |-> f.store,
        top |-> TopLevel(t.procs)]

----------------------------------------------------------------------------
(* The critical sections of one running Display, one after another *)

\* first screen line of the process list
startY == 8

\* the child rows of renderProcesses, from child j on
RECURSIVE renderChildren(_, _, _, _, _)
renderChildren(children, j, i, rows, maxRows) ==
    IF j > Len(children) \/ startY + Len(rows) >= startY + maxRows THEN rows
    ELSE renderChildren(children, j + 1, i,
                        Append(rows, [kind |-> "child", index |-> i,
                                      y |-> startY + Len(rows)]),
                        maxRows)

\* the loop of renderProcesses from entry i (counted from 0) on; rows are
\* the lines drawn so far, so currentY is startY + Len(rows)
RECURSIVE renderFrom(_, _, _, _)
renderFrom(d, i, rows, maxRows) ==
    IF ~(i < Len(d.processes)) \/ startY + Len(rows) >= startY + maxRows THEN rows
    ELSE
      LET proc == d.processes[i + 1]
          r1 == Append(rows, [kind |-> "process", index |-> i,
                              y |-> startY + Len(rows)])
      IN
      IF proc.Expanded /\ Len(proc.Children) > 0
      THEN LET r2 == IF startY + Len(r1) < startY + maxRows
                     THEN Append(r1, [kind |-> "parent", index |-> i,
                                      y |-> startY + Len(r1)])
                     ELSE r1
           IN renderFrom(d, i + 1, renderChildren(proc.Children, 1, i, r2, maxRows),
                         maxRows)
      ELSE renderFrom(d, i + 1, r1, maxRows)

\* renderProcesses: the lines it draws, top to bottom
renderProcesses(d) == renderFrom(d, d.scrollOffset, << >>, d.height - 11)

\* second value of screen.Size(): one, two or three process rows
CursorHeights == {12, 13, 14}

\* the name of top-level process i
EntryName(i) == <<<<"a">>, <<"b">>, <<"c">>>>[i]

\* what the three top-level processes are in a snapshot: not there, alone,
\* or with one child of the same name
CursorShapes ==
    { <<"absent", "absent", "absent">>,
      <<"alone",  "absent", "absent">>,
      <<"family", "absent", "absent">>,
      <<"family", "alone",  "absent">>,
      <<"alone",  "family", "absent">>,
      <<"alone",  "alone",  "alone">>,
      <<"family", "alone",  "family">>,
      <<"family", "family", "family">> }

\* process.Processes() for a choice of shapes: top-level process i has pid
\* i and the CPU 10.0 - i percent, its child the pid Len(shape) + i
RECURSIVE EntrySamples(_, _, _)
EntrySamples(shape, i, withChild) ==
    IF i > Len(shape) THEN << >>
    ELSE (IF withChild /\ shape[i] = "family"
          THEN <<Sample(Len(shape) + i, i, EntryName(i), 0, 0)>>
          ELSE IF ~withChild /\ shape[i] # "absent"
          THEN <<Sample(i, 0, EntryName(i), 100 - 10 * i, 0)>>
          ELSE << >>)
         \o EntrySamples(shape, i + 1, withChild)

CursorSnapshot(shape) ==
    EntrySamples(shape, 1, FALSE) \o EntrySamples(shape, 1, TRUE)

\* Run has made the screen and started its goroutines; nothing is published
InitCursor ==
    /\ MonitorNew
    /\ \E h \in CursorHeights :
         display = [DisplayNew EXCEPT !.screen = "on", !.height = h]
    /\ mu = "free"
    /\ at = [update |-> "top", input |-> "poll", render |-> "top"]
    /\ probe = [fn |-> "Run", key |-> "none"]

\* a tick: GetFilteredProcesses, then the locked part of updateProcesses
CursorPublish ==
    /\ \E shape \in CursorShapes :
         LET r == PassOver(CursorSnapshot(shape), processes)
             f == sortSlice(Ascending(r.top), r.procs)
         IN /\ display' = ClampSelection(
                  [display EXCEPT !.processes = [i \in DOMAIN f |-> r.procs[f[i]]]])
            /\ processes' = r.store
    /\ probe' = [fn |-> "updateProcesses", key |-> "none"]
    /\ UNCHANGED <<snapshot, pc, idx, allProcesses, childrenMap, aggregated,
                   pending, calls, filtered, absent, mu, at>>

\* HandleInput for Up, Down, Home and End
CursorKey ==
    /\ \E key \in {"up", "down", "home", "end"} :
         /\ display' = KeyEffect(display, key)
         /\ probe' = [fn |-> IF key \in {"up", "down"} THEN "MoveCursor"
                             ELSE "SetCursor",
                      key |-> key]
    /\ UNCHANGED <<mvars, absent, mu, at>>

\* HandleInput for Enter: Display.ToggleExpanded
CursorToggle ==
    /\ LET pid == SelectedPID(display)
       IN /\ processes' = ToggleExpanded(processes, pid)
          /\ display' = [display EXCEPT
                           !.processes = AliasedForest(@, allProcesses, processes', pid)]
    /\ probe' = [fn |-> "ToggleExpanded", key |-> "enter"]
    /\ UNCHANGED <<snapshot, pc, idx, allProcesses, childrenMap, aggregated,
                   pending, calls, filtered, absent, mu, at>>

NextCursor == CursorPublish \/ CursorKey \/ CursorToggle

SpecCursor == InitCursor /\ [][NextCursor]_vars

----------------------------------------------------------------------------
(* One toggle against one pass, getProcessInfo taken line by line *)

\* process.Processes() during the race: one entry, one entry with a folded
\* child, two entries
RaceSnapshots ==
    { <<Sample(1, 0, <<"a">>, 60, 0)>>,
      <<Sample(1, 0, <<"a">>, 60, 0), Sample(2, 1, <<"a">>, 70, 0)>>,
      <<Sample(1, 0, <<"a">>, 70, 0), Sample(2, 0, <<"b">>, 60, 0)>> }

\* An earlier tick has filled the store and published its forest; the
\* update loop stands before its next tick and no key has been pressed.
\* probe holds the store as getProcessInfo last read it, and of the one
\* toggle its PID and the flag the store held for it before
InitRace ==
    /\ snapshot = << >>
    /\ pc = "idle"
    /\ idx = 1
    /\ allProcesses = EmptyMap
    /\ childrenMap = EmptyMap
    /\ aggregated = {}
    /\ pending = {}
    /\ calls = EmptyMap
    /\ filtered = << >>
    /\ absent = EmptyMap
    /\ \E snap \in RaceSnapshots :
         \E flags \in [{snap[i].pid : i \in DOMAIN snap} -> BOOLEAN] :
           LET r == PassOver(snap, flags)
               f == sortSlice(Ascending(r.top), r.procs)
           IN /\ processes = r.store
              /\ \E sel \in 0..(Len(f) - 1) :
                   display = [DisplayNew EXCEPT
                                !.screen = "on", !.height = 13,
                                !.processes = [i \in DOMAIN f |-> r.procs[f[i]]],
                                !.selectedIndex = sel]
    /\ mu = "free"
    /\ at = [update |-> "select", input |-> "poll", render |-> "top"]
    /\ probe = [fn |-> "ToggleExpanded", scan |-> "none", seen |-> EmptyMap,
                toggled |-> FALSE, pid |-> 0, before |-> FALSE]

\* the tick: updateProcesses calls GetFilteredProcesses
RaceTick ==
    /\ at.update = "select"
    /\ pc = "idle"
    /\ \E snap \in RaceSnapshots :
         /\ snapshot' = snap
         /\ calls' = [p \in {snap[i].pid : i \in DOMAIN snap} |-> 0]
    /\ pc' = "collect"
    /\ idx' = 1
    /\ allProcesses' = EmptyMap
    /\ childrenMap' = EmptyMap
    /\ aggregated' = {}
    /\ pending' = {}
    /\ filtered' = << >>
    /\ at' = [at EXCEPT !.update = "pass"]
    /\ UNCHANGED <<processes, absent, display, mu, probe>>

\* getProcessInfo down to the read of m.processes[pid] and of the flag of
\* the node found there
CollectRead ==
    /\ pc = "collect"
    /\ idx <= Len(snapshot)
    /\ probe' = [probe EXCEPT !.seen = processes]
    /\ pc' = "store"
    /\ UNCHANGED <<snapshot, idx, allProcesses, childrenMap, aggregated, pending,
                   calls, filtered, processes, absent, display, mu, at>>

\* m.processes[pid] = info with the flag that was read, and the rest of the
\* iteration of the first pass
CollectStore ==
    /\ pc = "store"
    /\ LET info == getProcessInfo(snapshot[idx], probe.seen)
           all == MapPut(allProcesses, info.PID, info)
       IN /\ processes' = MapPut(processes, info.PID, info.Expanded)
          /\ allProcesses' = all
          /\ childrenMap' = LinkChild(childrenMap, info)
          /\ idx' = idx + 1
          /\ IF idx = Len(snapshot)
             THEN pc' = AfterCollect(all) /\ pending' = DOMAIN all
             ELSE pc' = "collect" /\ pending' = pending
    /\ UNCHANGED <<snapshot, aggregated, calls, filtered, absent, display, mu, at,
                   probe>>

\* Enter, once, before the pass has published: HandleInput calls
\* Display.ToggleExpanded, whose d.mu.Lock() succeeds
RaceInputLock ==
    /\ Alive
    /\ at.input = "poll"
    /\ at.update \in {"select", "pass"}
    /\ ~probe.toggled
    /\ mu = "free"
    /\ mu' = "input"
    /\ at' = [at EXCEPT !.input = "enter"]
    /\ probe' = [probe EXCEPT !.toggled = TRUE,
                              !.pid = SelectedPID(display),
                              !.before = processes[SelectedPID(display)]]
    /\ UNCHANGED <<mvars, absent, display>>

\* the map write of getProcessInfo and the map read of ToggleExpanded at
\* the same time: the runtime may notice and end the program
RaceFault ==
    /\ pc = "store"
    /\ at.input = "enter"
    /\ pc' = "fault"
    /\ at' = [update |-> "exit", input |-> "exit", render |-> "exit"]
    /\ UNCHANGED <<snapshot, idx, allProcesses, childrenMap, aggregated, pending,
                   calls, filtered, processes, absent, display, mu, probe>>

NextRace ==
    \/ RaceTick
    \/ CollectRead
    \/ CollectStore
    \/ Aggregate
    \/ Filter
    \/ UpdateLock
    \/ Publish
    \/ PublishUnlock
    \/ RaceInputLock
    \/ InputToggle
    \/ RaceFault

SpecRace == InitRace /\ [][NextRace]_vars

----------------------------------------------------------------------------
(* The update loop against the Space and r keys *)

\* process.Processes() at a tick: nothing to show, or one entry
RefreshSnapshots == { << >>, <<Sample(1, 0, <<"a">>, 60, 0)>> }

\* Run has made the screen and started its goroutines. probe tells whether
\* a refresh asked for while paused still waits for a pass to start, and
\* which key came last
InitRefresh ==
    /\ MonitorNew
    /\ display = [DisplayNew EXCEPT !.screen = "on", !.height = 13]
    /\ mu = "free"
    /\ at = [update |-> "top", input |-> "poll", render |-> "top"]
    /\ probe = [fn |-> "ForceRefresh", scan |-> "none", request |-> "none",
                key |-> "none"]

\* a tick that calls updateProcesses: a pass starts, after every request
\* made so far
RefreshTickPass ==
    /\ at.update = "select"
    /\ ~display.paused \/ display.forceRefresh
    /\ pc = "idle"
    /\ \E snap \in RefreshSnapshots :
         /\ snapshot' = snap
         /\ calls' = [p \in {snap[i].pid : i \in DOMAIN snap} |-> 0]
         /\ pc' = IF snap = << >> THEN AfterCollect(EmptyMap) ELSE "collect"
    /\ idx' = 1
    /\ allProcesses' = EmptyMap
    /\ childrenMap' = EmptyMap
    /\ aggregated' = {}
    /\ pending' = {}
    /\ filtered' = << >>
    /\ at' = [at EXCEPT !.update = "pass"]
    /\ probe' = [probe EXCEPT !.request = "none"]
    /\ UNCHANGED <<processes, absent, display, mu>>

\* HandleInput for Space or r: TogglePause or ForceRefresh, from Lock to
\* the deferred Unlock
RefreshKey ==
    /\ at.input = "poll"
    /\ display.running
    /\ mu = "free"
    /\ \E key \in {"space", "r"} :
         /\ display' = KeyEffect(display, key)
         /\ probe' = [probe EXCEPT
                        !.key = key,
                        !.request = IF key = "r" /\ display.paused
                                    THEN "pending" ELSE @]
    /\ UNCHANGED <<mvars, absent, mu, at>>

\* the steps of the update goroutine
RefreshUpdate ==
    \/ UpdateLoopTest
    \/ TickSkip
    \/ RefreshTickPass
    \/ Collect
    \/ Aggregate
    \/ Filter
    \/ UpdateLock
    \/ Publish
    \/ PublishUnlock
    \/ ClearForceRefresh

NextRefresh == RefreshUpdate \/ RefreshKey

\* the ticker keeps firing and the update goroutine keeps running; nobody
\* has to press a key
SpecRefresh == InitRefresh /\ [][NextRefresh]_vars /\ WF_vars(RefreshUpdate)

----------------------------------------------------------------------------
(* C1 *)

\* C1: after a completed pass, every process with at least one related
\* child shows its original CPU (kept in ParentCPU) plus the CPU of the
\* entries of its Children list, the same for memory, and every entry
\* carries the child's own aggregated values.
C1_Conservation ==
    Done =>
      \A p \in Pids :
        RelatedChildrenOf(p) # {} =>
          /\ Node(p).ParentCPU = SampleOf(p).cpu
          /\ Node(p).ParentMemory = SampleOf(p).mem
          /\ Node(p).CPUPercent = Node(p).ParentCPU + SumCPU(Node(p).Children)
          /\ Node(p).MemoryBytes = Node(p).ParentMemory + SumMemory(Node(p).Children)
          /\ \A i \in DOMAIN Node(p).Children :
               LET e == Node(p).Children[i]
               IN /\ e.CPUPercent = Node(e.PID).CPUPercent
                  /\ e.MemoryBytes = Node(e.PID).MemoryBytes

\* a completed pass in which a process has a related child that itself has
\* a related child, all with usage of their own
C1_Witness ==
    /\ Done
    /\ \E p, c, g \in Pids :
         /\ c \in RelatedChildrenOf(p)
         /\ g \in RelatedChildrenOf(c)
         /\ SampleOf(g).cpu > 0 /\ SampleOf(c).cpu > 0 /\ SampleOf(g).mem > 0
         /\ Node(p).CPUPercent = SampleOf(p).cpu + SampleOf(c).cpu + SampleOf(g).cpu

----------------------------------------------------------------------------
(* C2 *)

\* C2: the pass ends for every snapshot, cyclic ones included: the stack is
\* never outgrown and no process is entered past the guards a second time.
C2_CycleSafety ==
    /\ pc # "overflow"
    /\ \A p \in DOMAIN calls : calls[p] <= 1

----------------------------------------------------------------------------
(* C3 *)

\* C3 as claimed: over a forest, the returned sequence never holds a
\* process together with one of its ancestors.
C3_NoAncestorReturned ==
    (Done /\ IsForest) =>
      \A x, y \in Returned : y \notin Ancestors(x)

\* C3: over a forest, the returned sequence never holds a process together
\* with its parent, the process whose pid is its ppid.
C3_NoParentReturned ==
    (Done /\ IsForest) =>
      \A x, y \in Returned : SampleOf(x).ppid # y

\* a forest where a process meeting a threshold is left out because its
\* parent is returned
C3_Witness ==
    /\ Done /\ IsForest
    /\ \E c \in Pids, p \in Returned :
         IsChildOf(c, p) /\ MeetsThreshold(c) /\ c \notin Returned

----------------------------------------------------------------------------
(* C4 *)

----------------------------------------------------------------------------
(* C5 *)

\* C5: a process unrelated to its parent that meets a threshold is returned,
\* is not in the parent's Children list and is not in the parent's totals,
\* whether or not the parent meets a threshold.
C5_UnrelatedChildShown ==
    Done =>
      \A c, p \in Pids :
        (IsChildOf(c, p) /\ ~Related(c, p) /\ MeetsThreshold(c)) =>
          /\ c \in Returned
          /\ c \notin ChildPidsOf(p)
          /\ Node(p).CPUPercent = SampleOf(p).cpu + SumCPU(Node(p).Children)

----------------------------------------------------------------------------
(* C6 *)

\* C6: a process with a system-init name absorbs none of its children: it
\* shows its own sample values, its Children list is empty, and it is
\* returned only if its own sample values meet a threshold.
C6_SystemRootExclusion ==
    Done =>
      \A p \in Pids :
        SampleOf(p).name \in {systemd, init, launchd} =>
          /\ Node(p).CPUPercent = SampleOf(p).cpu
          /\ Node(p).MemoryBytes = SampleOf(p).mem
          /\ Node(p).Children = << >>
          /\ p \in Returned =>
               (SampleOf(p).cpu >= CPUThreshold \/ SampleOf(p).mem >= MemoryThreshold)

\* a system-init-named parent with a child of the same name that has usage
C6_Witness ==
    /\ Done
    /\ \E p, c \in Pids :
         /\ SampleOf(p).name \in {systemd, init, launchd}
         /\ IsChildOf(c, p) /\ c # p
         /\ SampleOf(c).name = SampleOf(p).name
         /\ SampleOf(c).cpu > 0

----------------------------------------------------------------------------
(* C7 *)

\* C7: the returned sequence is in descending order of aggregated CPU and
\* holds each surviving top-level process once and nothing else.
C7_SortedPermutation ==
    Done =>
      /\ \A i \in 1..(Len(filtered) - 1) :
           Node(filtered[i]).CPUPercent >= Node(filtered[i + 1]).CPUPercent
      /\ Returned = {p \in Pids : MeetsThreshold(p)
                                  /\ ~(SampleOf(p).ppid \in Pids
                                       /\ MeetsThreshold(SampleOf(p).ppid))}
      /\ Len(filtered) = Cardinality(Returned)

\* two entries returned with different CPU, the larger pid having the more
C7_Witness ==
    /\ Done
    /\ \E i, j \in DOMAIN filtered :
         /\ i < j /\ filtered[i] > filtered[j]
         /\ Node(filtered[i]).CPUPercent > Node(filtered[j]).CPUPercent

----------------------------------------------------------------------------
(* C8 *)

\* C8: for chrome (3.2%, 85MB) with child chrome-gpu (2.3%, 45MB) the call
\* returns pid 1 alone, at 5.5% and 130MB, original values 3.2% and 85MB,
\* with the single Children entry pid 2, a thread.
C8_ChromeScenario ==
    (Done /\ snapshot = ChromeScenario) =>
      /\ filtered = <<1>>
      /\ Node(1).CPUPercent = 55
      /\ Node(1).MemoryBytes = 130 * MB
      /\ Node(1).ParentCPU = 32
      /\ Node(1).ParentMemory = 85 * MB
      /\ Len(Node(1).Children) = 1
      /\ Node(1).Children[1].PID = 2
      /\ Node(1).Children[1].IsThread

C8_Witness == Done /\ snapshot = ChromeScenario /\ Len(filtered) = 1

----------------------------------------------------------------------------
(* C9 *)

\* C9: a process whose ppid has no sample in the snapshot is in no Children
\* list, is part of no other process's totals (every node shows its own
\* sample plus its Children entries), and is returned whenever it meets a
\* threshold.
C9_MissingParent ==
    Done =>
      \A c \in Pids :
        SampleOf(c).ppid \notin Pids =>
          /\ \A p \in Pids :
               /\ c \notin ChildPidsOf(p)
               /\ Node(p).CPUPercent = SampleOf(p).cpu + SumCPU(Node(p).Children)
               /\ Node(p).MemoryBytes = SampleOf(p).mem + SumMemory(Node(p).Children)
          /\ MeetsThreshold(c) => c \in Returned

\* a returned process whose non-zero ppid has no sample
C9_Witness ==
    /\ Done
    /\ \E c \in Returned : SampleOf(c).ppid # 0 /\ SampleOf(c).ppid \notin Pids

----------------------------------------------------------------------------
(* C10 *)

\* C10: a process whose ppid is 0 is in no Children list and is returned
\* whenever it meets a threshold, also when the snapshot has a sample with
\* pid 0.
C10_PpidZeroIsRoot ==
    Done =>
      \A c \in Pids :
        SampleOf(c).ppid = 0 =>
          /\ \A p \in Pids : c \notin ChildPidsOf(p)
          /\ MeetsThreshold(c) => c \in Returned

----------------------------------------------------------------------------
(* C11 *)

\* the parent under pid 1 and the child under pid 2, as a snapshot
PairSnapshot(child, parent) ==
    << Sample(1, 0, parent.Name, parent.CPUPercent, parent.MemoryBytes),
       Sample(2, 1, child.Name, child.CPUPercent, child.MemoryBytes) >>

\* C11: isThread is true exactly when the names are equal, or the parent's
\* name is a proper prefix of the child's, or the parent has memory and the
\* child has less than a tenth of it; whatever it answers, a pass over the
\* pair folds the child into the parent exactly when the names are related
\* and returns what the thresholds say.
C11_IsThread ==
    (probe.fn = "isThread" /\ probe.done) =>
      LET c == probe.child
          p == probe.parent
          related == /\ p.Name \notin {systemd, init, launchd}
                     /\ (IsPrefixOf(p.Name, c.Name) \/ IsPrefixOf(c.Name, p.Name))
          r == PassOver(PairSnapshot(c, p), EmptyMap)
          total == [CPUPercent  |-> p.CPUPercent + (IF related THEN c.CPUPercent ELSE 0),
                    MemoryBytes |-> p.MemoryBytes + (IF related THEN c.MemoryBytes ELSE 0)]
      IN /\ probe.result <=>
              \/ c.Name = p.Name
              \/ IsProperPrefixOf(p.Name, c.Name)
              \/ (p.MemoryBytes > 0 /\ 10 * c.MemoryBytes < p.MemoryBytes)
         /\ Len(r.procs[1].Children) = (IF related THEN 1 ELSE 0)
         /\ r.procs[1].CPUPercent = total.CPUPercent
         /\ r.procs[1].MemoryBytes = total.MemoryBytes
         /\ 1 \in r.top <=> Qualifies(total)
         /\ 2 \in r.top <=> (Qualifies(c) /\ ~Qualifies(total))

\* a child that is a thread by its memory alone and is not folded in
C11_Witness ==
    /\ probe.fn = "isThread" /\ probe.done /\ probe.result
    /\ ~IsPrefixOf(probe.parent.Name, probe.child.Name)
    /\ ~IsPrefixOf(probe.child.Name, probe.parent.Name)
    /\ probe.child.MemoryBytes > 0
    /\ probe.child.CPUPercent > 0

----------------------------------------------------------------------------
(* C12 *)

\* C12: isRelatedToParent is false when the parent's name is systemd, init
\* or launchd, and otherwise true exactly when the names are equal or one
\* is a prefix of the other, whatever the memory and CPU of the two.
C12_IsRelatedToParent ==
    (probe.fn = "isRelatedToParent" /\ probe.done) =>
      LET c == probe.child.Name
          p == probe.parent.Name
      IN probe.result <=>
           /\ p \notin {systemd, init, launchd}
           /\ (c = p \/ IsPrefixOf(p, c) \/ IsPrefixOf(c, p))

\* a related pair in which the child's name is the shorter one and the two
\* differ in memory and CPU
C12_Witness ==
    /\ probe.fn = "isRelatedToParent" /\ probe.done /\ probe.result
    /\ IsProperPrefixOf(probe.child.Name, probe.parent.Name)
    /\ probe.child.Name # << >>
    /\ probe.child.MemoryBytes # probe.parent.MemoryBytes
    /\ probe.child.CPUPercent # probe.parent.CPUPercent

----------------------------------------------------------------------------
(* C16 *)

----------------------------------------------------------------------------
(* C13 *)

\* C13: ToggleExpanded(pid) flips the flag of a pid the store knows and
\* nothing else, neither another pid's flag nor any other field of a node
\* nor the returned list; for a pid the store does not know it changes
\* nothing and returns normally; a second toggle of the same pid brings the
\* first flag back.
C13_ToggleExpanded ==
    (probe.fn = "ToggleExpanded") =>
      LET flipped(q) == q = probe.pid /\ probe.n = 1
      IN /\ pc = "idle"
         /\ DOMAIN processes = DOMAIN probe.store
         /\ \A q \in DOMAIN processes :
              processes[q] = (IF flipped(q) THEN ~probe.store[q] ELSE probe.store[q])
         /\ DOMAIN allProcesses = DOMAIN probe.nodes
         /\ \A q \in DOMAIN allProcesses :
              allProcesses[q] =
                [probe.nodes[q] EXCEPT !.Expanded = IF flipped(q) THEN ~@ ELSE @]
         /\ filtered = probe.filtered

\* pid 1, holding a folded child, has been toggled twice while pid 2 stays
\* expanded
C13_Witness ==
    /\ probe.fn = "ToggleExpanded" /\ probe.pid = 1 /\ probe.n = 2
    /\ 1 \in DOMAIN allProcesses /\ Len(allProcesses[1].Children) = 1
    /\ 2 \in DOMAIN processes /\ processes[2]

----------------------------------------------------------------------------
(* C14 *)

\* C14: at the end of a pass every node carries the flag the store held for
\* its pid when the pass was called, collapsed if it held none, and the
\* store holds that flag again; every other field of every node is what a
\* pass over the same snapshot gives a Monitor that has never run.
C14_ExpansionPersists ==
    (pc = "done" /\ probe.fn = "GetFilteredProcesses") =>
      LET first == PassOver(snapshot, EmptyMap)
      IN /\ DOMAIN allProcesses = DOMAIN first.procs
         /\ \A pid \in DOMAIN allProcesses :
              /\ allProcesses[pid].Expanded =
                   (pid \in DOMAIN probe.store /\ probe.store[pid])
              /\ processes[pid] = allProcesses[pid].Expanded
              /\ [allProcesses[pid] EXCEPT !.Expanded = FALSE] = first.procs[pid]
         /\ {filtered[i] : i \in DOMAIN filtered} = first.top

\* a pass that finds pid 1 expanded from an earlier tick, with a folded
\* child the store has never seen
C14_Witness ==
    /\ pc = "done" /\ probe.fn = "GetFilteredProcesses"
    /\ DOMAIN allProcesses = {1, 2}
    /\ allProcesses[1].Expanded
    /\ Len(allProcesses[1].Children) = 1
    /\ 2 \notin DOMAIN probe.store

----------------------------------------------------------------------------
(* C15 *)

\* C15: a node made for a pid that was missing from the snapshots of more
\* than one tick in a row is collapsed, whatever flag the store still holds
\* for that pid.
C15_StalenessBounded ==
    (pc \in {"collect", "aggregate", "filter", "done"}) =>
      \A pid \in DOMAIN allProcesses :
        (pid \in DOMAIN absent /\ absent[pid] > 1) => ~allProcesses[pid].Expanded

----------------------------------------------------------------------------
(* C18 *)

\* the samples whose name and memory information can be read
Readable(p) == p.err \notin {"name", "mem"}

\* C18: a pass over a snapshot holding processes whose name or memory
\* cannot be read ends without error, with the nodes, the returned entries
\* and the store of a pass over the snapshot without those processes; the
\* store entries of those pids are as they were when the pass was called.
C18_RetrievalFailure ==
    /\ (\E i \in DOMAIN snapshot : ~Readable(snapshot[i])) => pc # "overflow"
    /\ (pc = "done" /\ probe.fn = "GetFilteredProcesses") =>
         LET without == PassOver(SelectSeq(snapshot, Readable), probe.store)
         IN /\ allProcesses = without.procs
            /\ {filtered[i] : i \in DOMAIN filtered} = without.top
            /\ Len(filtered) = Cardinality(without.top)
            /\ processes = without.store
            /\ \A i \in DOMAIN snapshot :
                 ~Readable(snapshot[i]) =>
                   LET pid == snapshot[i].pid
                   IN /\ pid \notin DOMAIN allProcesses
                      /\ pid \in DOMAIN processes <=> pid \in DOMAIN probe.store
                      /\ pid \in DOMAIN processes => processes[pid] = probe.store[pid]

\* the parent's name cannot be read: its child is returned on its own and
\* the parent's expanded flag stays in the store
C18_Witness ==
    /\ pc = "done" /\ probe.fn = "GetFilteredProcesses"
    /\ Len(snapshot) = 2
    /\ snapshot[1].err = "name" /\ snapshot[2].err = "none"
    /\ filtered = <<2>>
    /\ 1 \in DOMAIN processes /\ processes[1]

----------------------------------------------------------------------------
(* C17 *)

----------------------------------------------------------------------------
(* C19 *)

\* the update loop is inside updateProcesses with a snapshot
InFlight == at.update \in {"pass", "publish", "clamp"}

\* the steps of the update goroutine inside updateProcesses
UpdateStep ==
    \/ Collect
    \/ Aggregate
    \/ AggregateOverflow
    \/ Filter
    \/ UpdateLock
    \/ Publish
    \/ PublishUnlock

\* no more than this many steps of the update goroutine are left before
\* updateProcesses has published and returned
StepsLeft ==
    CASE at.update = "clamp"   -> 1
      [] at.update = "publish" -> 2
      [] pc = "done"           -> 3
      [] pc = "filter"         -> 4
      [] pc = "aggregate"      -> 5 + Cardinality(pending)
      [] pc = "collect"        -> 6 + 2 * Len(snapshot) - idx
      [] OTHER                 -> 0

\* C19: a tick that finds the display paused without a pending refresh
\* starts no pass; pausing while a pass is in flight changes nothing of the
\* pass; and while the display is paused a pass in flight goes on to
\* publish: the update goroutine can take a step (in the second pass: has a
\* pid left to range over), or waits for a lock its holder can release, and
\* each of its steps brings the publication nearer unless the runtime ends
\* the program.
C19_Pause ==
    /\ [][(at.update = "select" /\ display.paused /\ ~display.forceRefresh) =>
            (at'.update \in {"select", "top"} /\ pc' = "idle"
             /\ snapshot' = snapshot)]_vars
    /\ [][(InFlight /\ ~display.paused /\ display'.paused) =>
            (at'.update = at.update /\ pc' = pc /\ snapshot' = snapshot
             /\ allProcesses' = allProcesses /\ filtered' = filtered)]_vars
    /\ []((InFlight /\ display.paused /\ Alive) =>
            \/ ENABLED (Collect \/ Filter \/ UpdateLock \/ Publish \/ PublishUnlock)
            \/ pc = "aggregate" /\ pending # {}
            \/ mu = "render" /\ ENABLED Render
            \/ mu = "input" /\ ENABLED (InputKey \/ InputToggle))
    /\ [][(InFlight /\ display.paused /\ UpdateStep) =>
            \/ ~Alive'
            \/ at'.update = "clear" /\ Len(display'.processes) = Len(filtered)
            \/ InFlight' /\ StepsLeft' < StepsLeft]_vars

\* a pass has published while the display was paused with no refresh pending
C19_Witness ==
    /\ at.update = "clear"
    /\ display.paused /\ ~display.forceRefresh
    /\ Len(display.processes) = 2

----------------------------------------------------------------------------
(* C20 *)

\* selectedIndex names an entry of the list, or is 0 on an empty list
SelectionInList(d) ==
    \/ Len(d.processes) = 0 /\ d.selectedIndex = 0
    \/ 0 <= d.selectedIndex /\ d.selectedIndex < Len(d.processes)

\* C20: the update loop holds the lock exactly from its Lock to the end of
\* the publication and never during the pass, render holds it while it
\* draws; every change of the published forest, the selected index, the
\* scroll offset, the paused flag, a stored expanded flag, and every setting
\* of forceRefresh is made by the holder of the exclusive lock; what a
\* render draws is the forest, index and offset it found when it took the
\* lock, with the index inside the forest.
C20_LockDiscipline ==
    /\ [](mu = "update" <=> at.update \in {"publish", "clamp"})
    /\ [](mu = "render" <=> at.render = "draw")
    /\ [](mu = "input" => at.input \in Keys)
    /\ [](at.render = "draw" =>
            (Frame(display) = probe.frame /\ SelectionInList(display)))
    /\ [][(\/ Frame(display') # Frame(display)
           \/ display'.paused # display.paused
           \/ (display'.forceRefresh /\ ~display.forceRefresh)
           \/ \E pid \in DOMAIN processes :
                pid \in DOMAIN processes' /\ processes'[pid] # processes[pid])
          => (mu \in {"update", "input"} /\ mu' \in {"update", "free"})]_vars

\* a render is drawing a forest of two entries while the next pass
\* aggregates
C20_Witness ==
    /\ mu = "render" /\ at.render = "draw"
    /\ at.update = "pass" /\ pc = "aggregate"
    /\ Len(display.processes) = 2

----------------------------------------------------------------------------
(* C23 *)

\* C23: after a pass over a forest, the CPU and the memory of every node
\* are the sums of the samples' own values over the process and those of
\* its descendants that hang below it on related links only; a descendant
\* behind an unrelated link adds nothing.
C23_MultiLevel ==
    (Done /\ IsForest) =>
      \A p \in Pids :
        /\ Node(p).CPUPercent = OwnCPU(Family(p))
        /\ Node(p).MemoryBytes = OwnMemory(Family(p))

\* a chain of three related processes: the root holds the usage of all three
C23_Witness ==
    /\ Done /\ IsForest
    /\ Len(snapshot) = 3
    /\ IsChildOf(3, 2) /\ IsChildOf(2, 1)
    /\ Family(1) = {1, 2, 3}
    /\ \A p \in Pids : SampleOf(p).cpu > 0
    /\ Node(1).CPUPercent = SampleOf(1).cpu + SampleOf(2).cpu + SampleOf(3).cpu

----------------------------------------------------------------------------
(* C24 *)

\* C24: in one pass no process is aggregated more than once, however it is
\* reached, and the pass ends with the nodes and the returned set that a
\* pass ranging over the pids in ascending order ends with.
C24_AggregatedOnce ==
    /\ pc # "overflow"
    /\ \A p \in DOMAIN calls : calls[p] <= 1
    /\ Done =>
         LET r == PassOver(snapshot, EmptyMap)
         IN /\ \A p \in Pids : calls[p] = 1
            /\ allProcesses = r.procs
            /\ Returned = r.top

----------------------------------------------------------------------------
(* C29 *)

\* C29: after a pass over a forest, no process's own usage is part of more
\* than one returned entry: a process that is related to its parent is
\* never above it in CPU or memory, so where it meets a threshold its
\* parent does too, and it is not returned.
C29_NoDoubleCount ==
    (Done /\ IsForest) =>
      /\ \A x \in Pids : Cardinality({e \in Returned : x \in Family(e)}) <= 1
      /\ \A e \in Returned : Occurrences(e) = 1
      /\ \A c \in Pids : \A p \in Pids :
           (IsChildOf(c, p) /\ Related(c, p)) =>
             /\ Node(p).CPUPercent >= Node(c).CPUPercent
             /\ Node(p).MemoryBytes >= Node(c).MemoryBytes
             /\ MeetsThreshold(c) => (MeetsThreshold(p) /\ c \notin Returned)

\* three related processes that each meet a threshold on their own: only
\* the root is returned
C29_Witness ==
    /\ Done /\ IsForest
    /\ Len(snapshot) = 3
    /\ Family(1) = {1, 2, 3}
    /\ \A p \in Pids : SampleOf(p).cpu >= CPUThreshold
    /\ Returned = {1}

----------------------------------------------------------------------------
(* C22 *)

\* the value a field must hold: what was last set, or else the default
LastSet(field, default) ==
    IF probe.set[field] = Nothing THEN default ELSE probe.set[field][1]

\* C22: a new Config holds CPU threshold 5.0, memory threshold 50 MB,
\* refresh rate one second and ShowThreads true; after any sequence of
\* setter calls every getter returns what was last set for its own field,
\* or the default if it never was, and a setter changes no other field.
C22_ConfigStore ==
    /\ [](/\ probe.fn = "New" =>
               /\ probe.config.CPUThreshold = 50
               /\ probe.config.MemoryThreshold = 50 * 1024 * 1024
               /\ probe.config.RefreshRate = 1000
               /\ probe.config.ShowThreads = TRUE
          /\ probe.fn = "GetCPUThreshold" =>
               probe.ret = <<LastSet("CPUThreshold", 50)>>
          /\ probe.fn = "GetMemoryThreshold" =>
               probe.ret = <<LastSet("MemoryThreshold", 50 * 1024 * 1024)>>
          /\ probe.fn = "GetRefreshRate" =>
               probe.ret = <<LastSet("RefreshRate", 1000)>>)
    /\ [][/\ probe'.fn = "SetCPUThreshold" =>
               /\ probe'.config.MemoryThreshold = probe.config.MemoryThreshold
               /\ probe'.config.RefreshRate = probe.config.RefreshRate
               /\ probe'.config.ShowThreads = probe.config.ShowThreads
          /\ probe'.fn = "SetMemoryThreshold" =>
               /\ probe'.config.CPUThreshold = probe.config.CPUThreshold
               /\ probe'.config.RefreshRate = probe.config.RefreshRate
               /\ probe'.config.ShowThreads = probe.config.ShowThreads
          /\ probe'.fn = "SetRefreshRate" =>
               /\ probe'.config.CPUThreshold = probe.config.CPUThreshold
               /\ probe'.config.MemoryThreshold = probe.config.MemoryThreshold
               /\ probe'.config.ShowThreads = probe.config.ShowThreads
          /\ probe'.fn \in {"GetCPUThreshold", "GetMemoryThreshold",
                            "GetRefreshRate"} =>
               probe'.config = probe.config]_vars

\* the memory threshold was set away from its default, then the CPU
\* threshold was set, and the memory getter still returns what was set
C22_Witness ==
    /\ probe.fn = "GetMemoryThreshold"
    /\ probe.set.CPUThreshold = <<1>>
    /\ probe.set.MemoryThreshold = <<MB>>
    /\ probe.set.RefreshRate = Nothing
    /\ probe.ret = <<MB>>
    /\ probe.config.RefreshRate = Second

----------------------------------------------------------------------------
(* C25 *)

\* C25: after every MoveCursor, SetCursor or updateProcesses on a list
\* that is not empty, on a screen with at least one process row, the line
\* of the selected process is among the lines renderProcesses draws,
\* whichever entries are expanded.
C25_SelectedVisible ==
    (/\ probe.fn \in {"MoveCursor", "SetCursor", "updateProcesses"}
     /\ Len(display.processes) > 0
     /\ display.height - 11 >= 1)
    => \E k \in DOMAIN renderProcesses(display) :
         /\ renderProcesses(display)[k].kind = "process"
         /\ renderProcesses(display)[k].index = display.selectedIndex

----------------------------------------------------------------------------
(* C26 *)

\* C26: whatever MoveCursor, SetCursor, ToggleExpanded and publications
\* have run, the selection is 0 on an empty list and inside the list
\* otherwise, and the scroll offset is not negative; MoveCursor steps by
\* one and wraps around both ends, Home selects the first entry and End the
\* last.
C26_CursorBounds ==
    /\ [](/\ Len(display.processes) = 0 => display.selectedIndex = 0
          /\ Len(display.processes) > 0 =>
               (0 <= display.selectedIndex
                /\ display.selectedIndex < Len(display.processes))
          /\ display.scrollOffset >= 0)
    /\ [][LET n == Len(display.processes)
          IN /\ probe'.fn \in {"MoveCursor", "SetCursor"} =>
                  display'.processes = display.processes
             /\ (probe'.key = "down" /\ n > 0) =>
                  display'.selectedIndex = (display.selectedIndex + 1) % n
             /\ (probe'.key = "up" /\ n > 0) =>
                  display'.selectedIndex = (display.selectedIndex + n - 1) % n
             /\ (probe'.key = "home" /\ n > 0) => display'.selectedIndex = 0
             /\ (probe'.key = "end" /\ n > 0) => display'.selectedIndex = n - 1
             /\ probe'.fn = "ToggleExpanded" =>
                  /\ display'.selectedIndex = display.selectedIndex
                  /\ display'.scrollOffset = display.scrollOffset
                  /\ Len(display'.processes) = n]_vars

\* Down on the last of three entries has wrapped to the first
C26_Witness ==
    /\ probe.key = "down"
    /\ Len(display.processes) = 3
    /\ display.selectedIndex = 0
    /\ display.scrollOffset = 0
    /\ display.height = 12

----------------------------------------------------------------------------
(* C27 *)

\* C27: when ToggleExpanded has run once for a PID of the store, before or
\* during a pass, the node of that PID in the forest the pass publishes
\* carries the negation of the flag the PID had before the toggle.
C27_NoLostToggle ==
    (at.update = "clear" /\ probe.toggled) =>
      \A i \in DOMAIN display.processes :
        display.processes[i].PID = probe.pid =>
          display.processes[i].Expanded = ~probe.before

----------------------------------------------------------------------------
(* C28 *)

\* C28: ToggleExpanded never stands at its access to the store while
\* getProcessInfo of a pass in flight stands at one of its own, unless the
\* pass holds the lock that ToggleExpanded runs under.
C28_StoreRaceFree ==
    (/\ at.update = "pass" /\ pc \in {"collect", "store"}
     /\ at.input = "enter" /\ SelectedPID(display) # 0)
    => mu = "update"

----------------------------------------------------------------------------
(* C21 *)

\* C21: every refresh asked for while the display is paused is eventually
\* followed by a pass that starts after the request; a pass starts on a
\* paused display only for a request, and only a request raises the flag.
C21_ForceRefresh ==
    /\ (probe.request = "pending") ~> (probe.request = "none")
    /\ [][/\ (at.update = "select" /\ at'.update = "pass" /\ display.paused)
               => display.forceRefresh
          /\ (display'.forceRefresh /\ ~display.forceRefresh)
               => (probe'.key = "r" /\ display' = ForceRefresh(display))]_vars

----------------------------------------------------------------------------
(* C30 *)

\* C30: after a quit key the running flag is false for good and the input
\* loop has returned; the update loop, once it has left, has no pass in
\* flight; render never draws on a screen that has been finalised, and the
\* screen has not been finalised yet when Run finalises it.
C30_Shutdown ==
    /\ [](at.input = "exit" => ~display.running)
    /\ [][~display.running => ~display'.running]_vars
    /\ [](at.update = "exit" => (~display.running /\ pc = "idle"))
    /\ [](at.render = "draw" => display.screen = "on")
    /\ [](at.render = "fini" => display.screen = "on")

====
